---- MODULE Spec2Model ----
(***************************************************************************)
(* Model of src/05_safe_globals/src/bsp/rpi3.rs: the QEMU output device    *)
(* (QEMUOutputInner behind a lock, QEMUOutput implementing console::Write  *)
(* and console::Statistics) driven by several execution contexts.          *)
(*                                                                         *)
(* Characters are Unicode code points (integers); a text is a sequence of  *)
(* code points.  The device output stream is kept as a history variable.   *)
(***************************************************************************)
EXTENDS Integers, Sequences, FiniteSets, TLC

\* ------------------------------------------------------------------ bounds
NumCtx    == 2   \* execution contexts calling into the singleton
MaxWrites == 2   \* write_fmt invocations begun in one behaviour
MaxPieces == 3   \* write_str calls the formatter makes in one behaviour
MaxChars  == 4   \* characters the formatter passes to write_str in one behaviour
UsizeBits == 2   \* width of usize in the model

\* --------------------------------------------------------- program constants
LF == 10         \* '\n'
CR == 13         \* '\r'
MmioAddr == 1059147840   \* 0x3F21_5040, the device register

Ctx      == 1..NumCtx
Modulus  == 2^UsizeBits
UsizeMax == Modulus - 1

\* Sample characters: 'a' (ASCII), '\n', and U+010A (two UTF-8 bytes, low
\* eight bits equal to those of '\n').
Alphabet == {97, LF, 266}

\* The texts of at most n characters.
Strs(n) == UNION {[1..k -> Alphabet] : k \in 0..n}

\* The characters of "hi\n", and the texts of at most n of them.
HiAlphabet == {104, 105, LF}
HiStrs(n) == UNION {[1..k -> HiAlphabet] : k \in 0..n}

\* ------------------------------------------------------------ pure helpers
\* `c as u8`: the low eight bits of the code point.
AsU8(ch) == ch % 256

\* Number of bytes of the UTF-8 encoding of one code point.
Utf8Len(ch) == IF ch < 128 THEN 1
               ELSE IF ch < 2048 THEN 2
               ELSE IF ch < 65536 THEN 3 ELSE 4

RECURSIVE StrLenFrom(_, _)
StrLenFrom(s, i) == IF i > Len(s) THEN 0 ELSE Utf8Len(s[i]) + StrLenFrom(s, i + 1)

\* A slip: a terminating byte is counted with the text.
StrLen_PlusNul(s) == StrLenFrom(s, 1) + 1

\* A slip: the characters are counted, not their encoded bytes.
StrLen_CharCount(s) == Len(s)

\* `s.len()`: the length of s in bytes of its UTF-8 encoding.
StrLen(s) == StrLenFrom(s, 1)

\* A slip: an addition that stops at the largest value.
AddUsize_Saturating(a, n) == IF a + n > UsizeMax THEN UsizeMax ELSE a + n

\* A slip: `=` written for `+=`.
AddUsize_Assign(a, n) == n % Modulus

\* `a += n` on usize once it is carried out: the sum modulo 2^w.
AddUsize(a, n) == (a + n) % Modulus

VARIABLES
    chars_written,  \* QEMUOutputInner.chars_written
    holder,         \* the lock of QEMUOutput.inner: 0 unlocked, else the context inside
    halted,         \* the program has panicked (bare metal: everything stops)
    pc,             \* pc[c]: where context c is
    cur,            \* cur[c]: the s of the running write_str
    pos,            \* pos[c]: index of the next character of cur[c] (the iterator)
    ret,            \* ret[c]: result of the running write_fmt: "None", "Ok", "Err"
    val,            \* val[c]: value read by the running chars_written, -1 when none
    device,         \* history: the stores made to the device register, in order
    npieces,        \* history: write_str calls begun
    nchars,         \* history: characters passed to the write_str calls begun
    tickets,        \* history: write requests that entered their critical section
    tk,             \* history: tk[c], ticket of context c's running write request
    start,          \* history: start[c], Len(device) when write_str was called
    reqStart,       \* history: reqStart[c], Len(device) when the request entered
    cnt0,           \* history: cnt0[c], chars_written when the request entered
    text,           \* history: text[c], the text the request passed to write_str so far
    fmtErr,         \* history: fmtErr[c], the formatting mechanism reported an error
    lastRet,        \* history: result of the write_fmt that returned last
    charsPassed,    \* history: source characters passed in by returned write requests
    bytesPassed,    \* history: UTF-8 bytes passed in by completed write_str calls
    written,        \* history: the texts of the completed write_str calls, joined
    boundaries      \* history: values of the counter at write request boundaries

vars == <<chars_written, holder, halted, pc, cur, pos, ret, val, device, npieces,
          nchars, tickets, tk, start, reqStart, cnt0, text, fmtErr, lastRet,
          charsPassed, bytesPassed, written, boundaries>>

\* write_volatile(0x3F21_5040 as *mut u8, c as u8): one store of one byte;
\* ch and tk record the character it was made for and the request it
\* belongs to.
Store(ch, t) == [addr |-> MmioAddr, b |-> AsU8(ch), ch |-> ch, tk |-> t]

\* A slip: the bytes of the UTF-8 encoding are sent, one store each.
WriteChar_Utf8(ch, t) ==
    IF ch < 128 THEN <<Store(ch, t)>>
    ELSE <<[addr |-> MmioAddr, b |-> 192 + (ch \div 64), ch |-> ch, tk |-> t],
           [addr |-> MmioAddr, b |-> 128 + (ch % 64), ch |-> ch, tk |-> t]>>

\* write_char(c): the stores it makes.
WriteChar(ch, t) == <<Store(ch, t)>>

\* A slip: a counter that starts at one.
NewCounter_One == 0 + 1

\* QEMUOutputInner::new: `chars_written: 0`.
NewCounter == 0

\* QEMUOutputInner::new / QEMUOutput::new / the static QEMU_OUTPUT.
Init ==
    /\ chars_written = NewCounter
    /\ holder = 0
    /\ halted = FALSE
    /\ pc = [c \in Ctx |-> "idle"]
    /\ cur = [c \in Ctx |-> <<>>]
    /\ pos = [c \in Ctx |-> 1]
    /\ ret = [c \in Ctx |-> "None"]
    /\ val = [c \in Ctx |-> -1]
    /\ device = <<>>
    /\ npieces = 0
    /\ nchars = 0
    /\ tickets = 0
    /\ tk = [c \in Ctx |-> 0]
    /\ start = [c \in Ctx |-> 0]
    /\ reqStart = [c \in Ctx |-> 0]
    /\ cnt0 = [c \in Ctx |-> 0]
    /\ text = [c \in Ctx |-> <<>>]
    /\ fmtErr = [c \in Ctx |-> FALSE]
    /\ lastRet = "None"
    /\ charsPassed = 0
    /\ bytesPassed = 0
    /\ written = <<>>
    /\ boundaries = {0}

\* ------------------------------------------------------------------- lock
\* lock(), before the closure runs: exclusive access is acquired; a caller
\* that finds it taken is held back until it is free.
LockAcquire(c) == holder = 0 /\ holder' = c

\* lock(), after the closure returned: access is released.
LockRelease(c) == holder' = 0

\* ------------------------------------------------------------ write_fmt
\* A slip: the closure body runs without taking the lock.
WriteFmtEnter_NoLock(c) ==
    /\ ~halted /\ pc[c] = "idle" /\ tickets < MaxWrites
    /\ holder' = holder
    /\ pc' = [pc EXCEPT ![c] = "fmt"]
    /\ tickets' = tickets + 1
    /\ tk' = [tk EXCEPT ![c] = tickets + 1]
    /\ reqStart' = [reqStart EXCEPT ![c] = Len(device)]
    /\ cnt0' = [cnt0 EXCEPT ![c] = chars_written]
    /\ boundaries' = boundaries \cup {chars_written}
    /\ UNCHANGED <<chars_written, halted, cur, pos, ret, val, device, npieces,
                   nchars, start, text, fmtErr, lastRet, charsPassed, bytesPassed,
                   written>>

\* A context calls console().write_fmt(args): r.lock(|i| ...) takes the lock
\* and the closure starts.
WriteFmtEnter(c) ==
    /\ ~halted /\ pc[c] = "idle" /\ tickets < MaxWrites
    /\ LockAcquire(c)
    /\ pc' = [pc EXCEPT ![c] = "fmt"]
    /\ tickets' = tickets + 1
    /\ tk' = [tk EXCEPT ![c] = tickets + 1]
    /\ reqStart' = [reqStart EXCEPT ![c] = Len(device)]
    /\ cnt0' = [cnt0 EXCEPT ![c] = chars_written]
    /\ boundaries' = boundaries \cup {chars_written}
    /\ UNCHANGED <<chars_written, halted, cur, pos, ret, val, device, npieces,
                   nchars, start, text, fmtErr, lastRet, charsPassed, bytesPassed,
                   written>>

\* fmt::Write::write_fmt(i, args): the formatter has rendered the piece s
\* of args and passes it to write_str.
PassPiece(c, s) ==
    /\ cur' = [cur EXCEPT ![c] = s]
    /\ text' = [text EXCEPT ![c] = @ \o s]
    /\ nchars' = nchars + Len(s)
    /\ pos' = [pos EXCEPT ![c] = 1]
    /\ npieces' = npieces + 1
    /\ start' = [start EXCEPT ![c] = Len(device)]
    /\ pc' = [pc EXCEPT ![c] = "str"]
    /\ UNCHANGED <<chars_written, holder, halted, ret, val, device, tickets, tk,
                   reqStart, cnt0, fmtErr, lastRet, charsPassed, bytesPassed,
                   written, boundaries>>

\* fmt::Write::write_fmt(i, args): the formatter renders the next piece of
\* args and passes it to write_str.
FmtPiece(c) ==
    /\ ~halted /\ pc[c] = "fmt" /\ npieces < MaxPieces
    /\ \E s \in Strs(MaxChars - nchars) : PassPiece(c, s)

\* The same with the pieces drawn from the texts over 'h', 'i' and '\n'.
FmtPieceHi(c) ==
    /\ ~halted /\ pc[c] = "fmt" /\ npieces < MaxPieces
    /\ \E s \in HiStrs(MaxChars - nchars) : PassPiece(c, s)

\* fmt::Write::write_fmt(i, args): args is rendered completely; the closure
\* returns Ok.
FmtDone(c) ==
    /\ ~halted /\ pc[c] = "fmt"
    /\ ret' = [ret EXCEPT ![c] = "Ok"]
    /\ pc' = [pc EXCEPT ![c] = "w_ret"]
    /\ UNCHANGED <<chars_written, holder, halted, cur, pos, val, device, npieces,
                   nchars, tickets, tk, start, reqStart, cnt0, text, fmtErr,
                   lastRet, charsPassed, bytesPassed,
                   written, boundaries>>

\* fmt::Write::write_fmt(i, args): the formatting of the next argument of
\* args reports an error; the rest of args is not rendered and the closure
\* returns that error.
FmtFail(c) ==
    /\ ~halted /\ pc[c] = "fmt"
    /\ fmtErr' = [fmtErr EXCEPT ![c] = TRUE]
    /\ ret' = [ret EXCEPT ![c] = "Err"]
    /\ pc' = [pc EXCEPT ![c] = "w_ret"]
    /\ UNCHANGED <<chars_written, holder, halted, cur, pos, val, device, npieces,
                   nchars, tickets, tk, start, reqStart, cnt0, text, lastRet,
                   charsPassed, bytesPassed,
                   written, boundaries>>

\* ------------------------------------------------------------ write_str
\* A slip: the carriage return follows the newline.
LoopBody_CrAfter(ch, t) ==
    IF ch = LF THEN <<Store(ch, t), Store(CR, t)>> ELSE <<Store(ch, t)>>

\* A slip: the newline is not translated.
LoopBody_NoCr(ch, t) == <<Store(ch, t)>>

\* The stores one iteration of the loop makes for character ch.
LoopBody(ch, t) ==
    IF ch = LF THEN WriteChar(CR, t) \o WriteChar(ch, t) ELSE WriteChar(ch, t)

\* One iteration of `for c in s.chars()`.
WriteStrStep(c) ==
    /\ ~halted /\ pc[c] = "str" /\ pos[c] <= Len(cur[c])
    /\ device' = device \o LoopBody(cur[c][pos[c]], tk[c])
    /\ pos' = [pos EXCEPT ![c] = @ + 1]
    /\ UNCHANGED <<chars_written, holder, halted, pc, cur, ret, val, npieces,
                   nchars, tickets, tk, start, reqStart, cnt0, text, fmtErr,
                   lastRet, charsPassed, bytesPassed,
                   written, boundaries>>

\* A slip: the device layer refuses text outside ASCII.
WriteStrResult_RejectNonAscii(s) ==
    IF \E i \in 1..Len(s) : s[i] >= 128 THEN "Err" ELSE "Ok"

\* The result write_str returns.
WriteStrResult(s) == "Ok"

\* write_str after the loop: `self.chars_written += s.len(); Ok(())`, and
\* the formatter going on after Ok (it returns an Err at once).  An addition
\* that overflows usize wraps around (overflow checks off) or panics
\* (overflow checks on), and a panic halts the program.
WriteStrAdd(c) ==
    /\ ~halted /\ pc[c] = "str" /\ pos[c] > Len(cur[c])
    /\ LET n == StrLen(cur[c])
           r == WriteStrResult(cur[c])
       IN  \/ /\ chars_written' = AddUsize(chars_written, n)
              /\ pc' = [pc EXCEPT ![c] = IF r = "Ok" THEN "fmt" ELSE "w_ret"]
              /\ ret' = [ret EXCEPT ![c] = IF r = "Ok" THEN @ ELSE r]
              /\ bytesPassed' = bytesPassed + n
              /\ written' = written \o cur[c]
              /\ halted' = halted
           \/ /\ chars_written + n > UsizeMax
              /\ halted' = TRUE
              /\ UNCHANGED <<chars_written, pc, ret, bytesPassed, written>>
    /\ UNCHANGED <<holder, cur, pos, val, device, npieces, nchars, tickets, tk,
                   start, reqStart, cnt0, text, fmtErr, lastRet, charsPassed,
                   boundaries>>

\* A slip: an early return on the error path skips the release.
WriteFmtReturn_KeepLockOnErr(c) ==
    /\ ~halted /\ pc[c] = "w_ret"
    /\ holder' = IF ret[c] = "Err" THEN holder ELSE 0
    /\ pc' = [pc EXCEPT ![c] = "idle"]
    /\ lastRet' = ret[c]
    /\ cur' = [cur EXCEPT ![c] = <<>>]
    /\ pos' = [pos EXCEPT ![c] = 1]
    /\ ret' = [ret EXCEPT ![c] = "None"]
    /\ tk' = [tk EXCEPT ![c] = 0]
    /\ start' = [start EXCEPT ![c] = 0]
    /\ reqStart' = [reqStart EXCEPT ![c] = 0]
    /\ cnt0' = [cnt0 EXCEPT ![c] = 0]
    /\ text' = [text EXCEPT ![c] = <<>>]
    /\ fmtErr' = [fmtErr EXCEPT ![c] = FALSE]
    /\ charsPassed' = charsPassed + Len(text[c])
    /\ boundaries' = boundaries \cup {chars_written}
    /\ UNCHANGED <<chars_written, halted, val, device, npieces, nchars, tickets,
                   bytesPassed,
                   written>>

\* lock() releases the lock and hands the closure's result to write_fmt,
\* which returns it to the caller; the call's locals are gone.
WriteFmtReturn(c) ==
    /\ ~halted /\ pc[c] = "w_ret"
    /\ LockRelease(c)
    /\ pc' = [pc EXCEPT ![c] = "idle"]
    /\ lastRet' = ret[c]
    /\ cur' = [cur EXCEPT ![c] = <<>>]
    /\ pos' = [pos EXCEPT ![c] = 1]
    /\ ret' = [ret EXCEPT ![c] = "None"]
    /\ tk' = [tk EXCEPT ![c] = 0]
    /\ start' = [start EXCEPT ![c] = 0]
    /\ reqStart' = [reqStart EXCEPT ![c] = 0]
    /\ cnt0' = [cnt0 EXCEPT ![c] = 0]
    /\ text' = [text EXCEPT ![c] = <<>>]
    /\ fmtErr' = [fmtErr EXCEPT ![c] = FALSE]
    /\ charsPassed' = charsPassed + Len(text[c])
    /\ boundaries' = boundaries \cup {chars_written}
    /\ UNCHANGED <<chars_written, halted, val, device, npieces, nchars, tickets,
                   bytesPassed,
                   written>>

\* --------------------------------------------------------- chars_written
\* A slip: the counter is read without taking the lock.
CharsWrittenEnter_NoLock(c) ==
    /\ ~halted /\ pc[c] = "idle"
    /\ holder' = holder
    /\ pc' = [pc EXCEPT ![c] = "read"]
    /\ UNCHANGED <<chars_written, halted, cur, pos, ret, val, device, npieces,
                   nchars, tickets, tk, start, reqStart, cnt0, text, fmtErr,
                   lastRet, charsPassed, bytesPassed,
                   written, boundaries>>

\* A context calls console().chars_written(): r.lock(|i| ...) takes the lock
\* and the closure starts.
CharsWrittenEnter(c) ==
    /\ ~halted /\ pc[c] = "idle"
    /\ LockAcquire(c)
    /\ pc' = [pc EXCEPT ![c] = "read"]
    /\ UNCHANGED <<chars_written, halted, cur, pos, ret, val, device, npieces,
                   nchars, tickets, tk, start, reqStart, cnt0, text, fmtErr,
                   lastRet, charsPassed, bytesPassed,
                   written, boundaries>>

\* A slip: a statistic that is cleared when it is read.
CharsWrittenRead_Clears(c) ==
    /\ ~halted /\ pc[c] = "read"
    /\ val' = [val EXCEPT ![c] = chars_written]
    /\ chars_written' = 0
    /\ pc' = [pc EXCEPT ![c] = "r_ret"]
    /\ UNCHANGED <<holder, halted, cur, pos, ret, device, npieces, nchars, tickets,
                   tk, start, reqStart, cnt0, text, fmtErr, lastRet, charsPassed,
                   bytesPassed,
                   written, boundaries>>

\* The closure body: i.chars_written.
CharsWrittenRead(c) ==
    /\ ~halted /\ pc[c] = "read"
    /\ val' = [val EXCEPT ![c] = chars_written]
    /\ pc' = [pc EXCEPT ![c] = "r_ret"]
    /\ UNCHANGED <<chars_written, holder, halted, cur, pos, ret, device, npieces,
                   nchars, tickets, tk, start, reqStart, cnt0, text, fmtErr,
                   lastRet, charsPassed, bytesPassed,
                   written, boundaries>>

\* lock() releases the lock and hands the value read to chars_written, which
\* returns it to the caller.
CharsWrittenReturn(c) ==
    /\ ~halted /\ pc[c] = "r_ret"
    /\ LockRelease(c)
    /\ pc' = [pc EXCEPT ![c] = "idle"]
    /\ val' = [val EXCEPT ![c] = -1]
    /\ UNCHANGED <<chars_written, halted, cur, pos, ret, device, npieces, nchars,
                   tickets, tk, start, reqStart, cnt0, text, fmtErr, lastRet,
                   charsPassed, bytesPassed,
                   written, boundaries>>

Next ==
    \E c \in Ctx :
        \/ WriteFmtEnter(c)
        \/ FmtPiece(c)
        \/ FmtDone(c)
        \/ FmtFail(c)
        \/ WriteStrStep(c)
        \/ WriteStrAdd(c)
        \/ WriteFmtReturn(c)
        \/ CharsWrittenEnter(c)
        \/ CharsWrittenRead(c)
        \/ CharsWrittenReturn(c)

Spec == Init /\ [][Next]_vars

\* The same program writing texts over 'h', 'i' and '\n'.
NextHi ==
    \E c \in Ctx :
        \/ WriteFmtEnter(c)
        \/ FmtPieceHi(c)
        \/ FmtDone(c)
        \/ FmtFail(c)
        \/ WriteStrStep(c)
        \/ WriteStrAdd(c)
        \/ WriteFmtReturn(c)
        \/ CharsWrittenEnter(c)
        \/ CharsWrittenRead(c)
        \/ CharsWrittenReturn(c)

SpecHi == Init /\ [][NextHi]_vars

\* ---------------------------------------------------------------- claims
\* The characters handed to write_char by a run of stores.
CharsOf(st) == [i \in 1..Len(st) |-> st[i].ch]

\* The bytes a run of stores puts into the device register.
BytesOf(st) == [i \in 1..Len(st) |-> st[i].b]

\* The stores made since context c's running write_str was called, and
\* since its running write request entered.
StrStores(c) == SubSeq(device, start[c] + 1, Len(device))
ReqStores(c) == SubSeq(device, reqStart[c] + 1, Len(device))

\* A text with one carriage return put before each newline.
RECURSIVE Translate(_)
Translate(s) ==
    IF s = <<>> THEN <<>>
    ELSE (IF Head(s) = LF THEN <<CR, LF>> ELSE <<Head(s)>>) \o Translate(Tail(s))

NewlinesIn(s) == Cardinality({i \in 1..Len(s) : s[i] = LF})

\* The part of cur[c] the loop has gone through.
Consumed(c) == SubSeq(cur[c], 1, pos[c] - 1)

\* C1: while write_str(s) runs, and so when its loop has ended, the stores it
\* has made are the characters of s gone through so far, in order, with one
\* carriage return right before each newline and nothing else: their number
\* is the number of those characters plus the number of newlines among them.
C1_WriteStrEmits ==
    \A c \in Ctx :
        pc[c] = "str" =>
            /\ CharsOf(StrStores(c)) = Translate(Consumed(c))
            /\ Len(StrStores(c)) = Len(Consumed(c)) + NewlinesIn(Consumed(c))

\* C1 witness: the loop of write_str("a\n" U+010A) has ended.
C1_Witness ==
    \E c \in Ctx :
        /\ pc[c] = "str" /\ pos[c] = Len(cur[c]) + 1
        /\ cur[c] = <<97, LF, 266>>
        /\ Len(StrStores(c)) = 4

\* C2 (the claim as stated): whenever no write request is under way,
\* chars_written is the number of source characters passed in by the write
\* requests that have returned.
C2_CounterCountsChars ==
    (\A c \in Ctx : pc[c] \notin {"fmt", "str", "w_ret"}) =>
        chars_written = charsPassed

\* C3: at most one context is inside the lock body.
C3_MutualExclusion ==
    Cardinality({c \in Ctx : pc[c] # "idle"}) <= 1

\* C3 witness: one context is inside write_str while another one is outside
\* with write requests left to make.
C3_Witness ==
    \E c, d \in Ctx :
        /\ c # d /\ pc[c] = "str" /\ holder = c
        /\ pc[d] = "idle" /\ tickets < MaxWrites /\ npieces < MaxPieces

\* C4: the stores of each write request form one block of the device stream
\* and the blocks come in the order the requests entered.
C4_NoInterleaving ==
    \A i, j \in 1..Len(device) : i < j => device[i].tk <= device[j].tk

\* C4 witness: two write requests have made two stores each.
C4_Witness ==
    /\ Len(device) >= 4
    /\ device[1].tk = 1 /\ device[2].tk = 1
    /\ device[Len(device) - 1].tk = 2 /\ device[Len(device)].tk = 2

\* C5: the value chars_written() is about to return is the counter as it
\* stood when some write request entered or when some write request
\* returned (or at the start), never a value in between.
C5_NoPartialRead ==
    \A c \in Ctx : pc[c] = "r_ret" => val[c] \in boundaries

\* C5 witness: a query has read the counter after a write request of two
\* pieces that moved it twice.
C5_Witness ==
    \E c \in Ctx :
        /\ pc[c] = "r_ret" /\ tickets = 1 /\ npieces = 2 /\ nchars = 2
        /\ val[c] = 2 /\ device # <<>>

\* C6 (the claim as stated): no step makes the counter smaller, and an
\* addition whose sum exceeds the largest value leaves the counter at it.
C6_MonotoneSaturating ==
    [][/\ chars_written' >= chars_written
       /\ \A c \in Ctx :
            (pc[c] = "str" /\ pc'[c] # "str"
                /\ chars_written + StrLen(cur[c]) > UsizeMax)
            => chars_written' = UsizeMax]_vars

\* C6 (amended): the counter changes only when a write_str ends, which adds
\* the byte length of its text modulo 2^w; so it gets smaller only when the
\* sum exceeds the largest value, and then it wraps around unless the
\* program panics and halts with the counter as it was.
C6_MonotoneUntilWrap ==
    [][/\ chars_written' # chars_written =>
            \E c \in Ctx :
                /\ pc[c] = "str" /\ pos[c] > Len(cur[c])
                /\ chars_written' = (chars_written + StrLen(cur[c])) % (2^UsizeBits)
       /\ chars_written' < chars_written =>
            \E c \in Ctx :
                pc[c] = "str" /\ chars_written + StrLen(cur[c]) > 2^UsizeBits - 1
       /\ halted' /\ ~halted => chars_written' = chars_written]_vars

\* C6 witness: the counter has wrapped around.
C6_Witness ==
    /\ ~halted /\ bytesPassed > UsizeMax
    /\ chars_written = bytesPassed % Modulus
    /\ chars_written < bytesPassed

\* C7: write_fmt is about to return an error exactly when the formatting
\* mechanism reported one; write_str never makes it fail.
C7_OnlyFormattingFailures ==
    \A c \in Ctx :
        pc[c] = "w_ret" =>
            /\ ret[c] \in {"Ok", "Err"}
            /\ ret[c] = "Err" <=> fmtErr[c]

\* C7 witness: write_fmt is about to return the formatter's error after
\* text outside ASCII went through write_str.
C7_Witness ==
    \E c \in Ctx :
        /\ pc[c] = "w_ret" /\ ret[c] = "Err" /\ fmtErr[c]
        /\ \E i \in 1..Len(text[c]) : text[c][i] >= 128

\* C8 (the claim as stated): no write_fmt is about to return with its text
\* cut short by a formatting error and part of it already emitted.
C8_AllOrNothing ==
    \A c \in Ctx :
        pc[c] = "w_ret" => ~(fmtErr[c] /\ Len(ReqStores(c)) > 0)

\* C8 (amended): a write_fmt about to return has emitted, translated and in
\* order, exactly the text rendered before it stopped, and has added that
\* text's byte length to the counter modulo 2^w; when it returns Ok the
\* text was rendered to its end.
C8_AppliedWhatWasRendered ==
    \A c \in Ctx :
        pc[c] = "w_ret" =>
            /\ CharsOf(ReqStores(c)) = Translate(text[c])
            /\ chars_written = (cnt0[c] + StrLen(text[c])) % Modulus
            /\ ret[c] = "Ok" => ~fmtErr[c]

\* C8 witness: write_fmt is about to return an error with "a\n" emitted and
\* counted.
C8_Witness ==
    \E c \in Ctx :
        /\ pc[c] = "w_ret" /\ ret[c] = "Err"
        /\ text[c] = <<97, LF>> /\ Len(ReqStores(c)) = 3
        /\ chars_written = cnt0[c] + 2

\* C9: a context that is outside write_fmt and chars_written does not hold
\* the lock, and with every context outside the lock is free.
C9_ReleasedOnReturn ==
    /\ \A c \in Ctx : pc[c] = "idle" => holder # c
    /\ (\A c \in Ctx : pc[c] = "idle") => holder = 0

\* C9 witness: a write_fmt has returned an error and every context is
\* outside.
C9_Witness ==
    /\ lastRet = "Err" /\ device # <<>>
    /\ \A c \in Ctx : pc[c] = "idle"
    /\ holder = 0

\* C10: no step of a chars_written() invocation (entering, reading,
\* returning) changes the counter or the device stream.
C10_PureQuery ==
    [][\A c \in Ctx :
        (\/ pc[c] = "idle" /\ pc'[c] = "read"
         \/ pc[c] = "read" /\ pc'[c] = "r_ret"
         \/ pc[c] = "r_ret" /\ pc'[c] = "idle")
        => /\ chars_written' = chars_written
           /\ device' = device]_vars

\* C10 witness: a query has read a counter that writes have moved, with
\* writes still to come.
C10_Witness ==
    \E c \in Ctx :
        /\ pc[c] = "r_ret" /\ val[c] = chars_written /\ val[c] > 0
        /\ tickets < MaxWrites /\ npieces < MaxPieces /\ nchars < MaxChars

\* The number of bytes of the UTF-8 encoding of a text: one for each
\* character and one more for each threshold the character reaches.
Utf8Bytes(s) ==
    Len(s) + Cardinality({i \in 1..Len(s) : s[i] >= 128})
           + Cardinality({i \in 1..Len(s) : s[i] >= 2048})
           + Cardinality({i \in 1..Len(s) : s[i] >= 65536})

\* C11: with no write_str under way, the device stream and the counter
\* depend only on the texts written so far joined together, not on how they
\* were split over write_fmt invocations: the stream is the joined text
\* translated, the counter its byte length modulo 2^w.  So write_fmt(s1)
\* followed by write_fmt(s2) leaves what one write_fmt of s1 followed by s2
\* leaves.
C11_Composition ==
    (\A c \in Ctx : pc[c] # "str") =>
        /\ CharsOf(device) = Translate(written)
        /\ chars_written = Utf8Bytes(written) % (2^UsizeBits)

\* C11 witness: write_fmt("aa") and then write_fmt("a") have returned, the
\* stream is a, a, a and the counter 3.
C11_Witness ==
    /\ \A c \in Ctx : pc[c] = "idle"
    /\ tickets = 2 /\ written = <<97, 97, 97>>
    /\ Len(device) = 3 /\ device[2].tk = 1 /\ device[3].tk = 2
    /\ chars_written = 3

\* C12: a query made before any write request returns 0 with nothing
\* stored to the device; a query made after write_fmt("hi\n") as the first
\* and only write request returns 3 with the bytes h, i, CR, LF stored.
C12_FreshThenHi ==
    \A c \in Ctx :
        pc[c] = "r_ret" =>
            /\ tickets = 0 => (val[c] = 0 /\ device = <<>>)
            /\ (tickets = 1 /\ lastRet = "Ok" /\ written = <<104, 105, LF>>) =>
                    (val[c] = 3 /\ BytesOf(device) = <<104, 105, 13, 10>>)

\* C12 witness: a query is about to return 3 after write_fmt("hi\n").
C12_Witness ==
    \E c \in Ctx :
        /\ pc[c] = "r_ret" /\ tickets = 1 /\ lastRet = "Ok"
        /\ written = <<104, 105, LF>> /\ val[c] = 3 /\ Len(device) = 4

\* C13: a write_fmt about to return that passed no character to write_str
\* (no piece, or empty pieces only) has stored nothing to the device and
\* has left the counter as it found it.
C13_EmptyWriteNoOp ==
    \A c \in Ctx :
        (pc[c] = "w_ret" /\ text[c] = <<>>) =>
            /\ Len(device) = reqStart[c]
            /\ chars_written = cnt0[c]

\* C13 witness: after earlier output, write_fmt("") has called write_str("")
\* and is about to return Ok.
C13_Witness ==
    \E c \in Ctx :
        /\ pc[c] = "w_ret" /\ ret[c] = "Ok" /\ text[c] = <<>>
        /\ start[c] = Len(device) /\ Len(device) > 0
        /\ cnt0[c] > 0 /\ chars_written = cnt0[c]

\* C14: every store goes to the one device address and holds one byte, the
\* low eight bits of the character write_char was called with; and with no
\* write_str under way there is one store for each write_char call, that
\* is for each character written and each carriage return put in.
C14_OneByteStore ==
    /\ \A i \in 1..Len(device) :
        /\ device[i].addr = 1059147840
        /\ device[i].b \in 0..255
        /\ device[i].b = device[i].ch % 256
    /\ (\A c \in Ctx : pc[c] # "str") =>
            Len(device) = Len(written) + NewlinesIn(written)

\* C14 witness: write_str of U+010A has ended with the byte 0x0A stored.
C14_Witness ==
    /\ \A c \in Ctx : pc[c] # "str"
    /\ written = <<266>> /\ Len(device) = 1
    /\ device[1].ch = 266 /\ device[1].b = 10

\* C15: the counter is always the sum, modulo the width of usize, of the
\* UTF-8 byte lengths of the texts whose write_str has returned, however
\* many stores were made for them; and the counter changes only in a step
\* of a write_str whose loop has gone through all of its text and made all
\* of its stores, by that text's byte length.
C15_CounterIsByteSum ==
    /\ [](chars_written = Utf8Bytes(written) % (2^UsizeBits))
    /\ [][chars_written' # chars_written =>
            \E c \in Ctx :
                /\ pc[c] = "str" /\ pos[c] = Len(cur[c]) + 1
                /\ CharsOf(StrStores(c)) = Translate(cur[c])
                /\ device' = device
                /\ written' = written \o cur[c]
                /\ chars_written' =
                       (chars_written + Utf8Bytes(cur[c])) % (2^UsizeBits)]_vars

\* C15 witness: five bytes of text in three characters made four stores,
\* and the counter has wrapped to 1.
C15_Witness ==
    /\ \A c \in Ctx : pc[c] # "str"
    /\ ~halted
    /\ written = <<266, 266, LF>>
    /\ Len(device) = 4
    /\ chars_written = 1

====
